---- MODULE Spec2Model ----
(***************************************************************************)
(* A model of src/RevenueMovie.py: the PopularityRecommender class and the *)
(* Streamlit script around it.  One run of the script (a "rerun") is one   *)
(* action; the session state that survives between reruns is the state.    *)
(*                                                                         *)
(* Numbers.  Popularities are whole numbers.  The bounds 0.7*q and 1.3*q   *)
(* are kept in tenths, as the integers 7*q and 13*q, and a popularity v is *)
(* compared with a bound as 10*v.  For the whole-number popularities used  *)
(* here the double-precision products q*0.7 and q*1.3 compare with every   *)
(* whole number exactly as 7*q/10 and 13*q/10 do (q*1.3 is exact whenever  *)
(* 13*q/10 is whole, and q*0.7 is never above 7*q/10 when that is whole).  *)
(*                                                                         *)
(* Data frames.  A data frame is kept up to the order of its rows: the     *)
(* cleaned catalog is a sequence of rows, every other frame a set (of      *)
(* catalog row numbers, or of rows).  The order of a frame only decides    *)
(* the order of display and which of several equally frequent values       *)
(* statistics.mode returns; the latter is a choice of the model.           *)
(***************************************************************************)
EXTENDS Integers, Sequences, FiniteSets, TLC

VARIABLES
    movies_file,           \* the table stored as dataset/RevenueMovies.csv (l.10)
    movies,                \* recommender.movies: the cleaned catalog (l.17-18)
    state_keys,            \* the keys st.session_state holds (l.58-69)
    locked_range,          \* st.session_state["locked_range"]
    selected_movies,       \* st.session_state["selected_movies"], up to order
    recommendations,       \* st.session_state["recommendations"], up to order
    sample_movies,         \* st.session_state["sample_movies"]: catalog row numbers
    selected_recommended,  \* st.session_state["selected_recommended"], up to order
    err,                   \* the exception that ended the last run, or "none"
    op,                    \* what triggered the last run
    warned,                \* the st.warning calls of the last run
    all_recs,              \* the local all_recs of the last run (l.112-119)
    lookups,               \* the recommend_by_popularity calls of the last batch
    mode_stat,             \* stats["Mode"] of the last run (l.180), if rendered
    call,                  \* arguments of a direct recommend_by_popularity call
    ret                    \* what that call returned

vars == <<movies_file, movies, state_keys, locked_range, selected_movies, recommendations, sample_movies,
          selected_recommended, err, op, warned, all_recs, lookups, mode_stat,
          call, ret>>

session == <<locked_range, selected_movies, recommendations, sample_movies,
             selected_recommended>>

(***************************************************************************)
(* Program constants.                                                      *)
(***************************************************************************)
LowerTenths == 7        \* popularity * 0.7  (l.23)
UpperTenths == 13       \* popularity * 1.3  (l.24)
MaxSelected == 5        \* len(persisted) > 5, persisted[:5]  (l.88-90, l.144-146)
DisplaySize == 10       \* sample(min(10, len(all_recs)))  (l.122)
SampleSize == 20        \* movies.sample(min(20, len(movies)))  (l.65, l.107)

(***************************************************************************)
(* Bounds of the model.                                                    *)
(***************************************************************************)
MaxChecked == 1         \* boxes found ticked in one list in one run
MaxRows == 3            \* rows of a catalog in the direct-call specification

None == <<>>            \* Python's None (falsy, like the empty tuple)

Min(a, b) == IF a < b THEN a ELSE b

Row(t, p) == [title |-> t, popularity |-> p]

(***************************************************************************)
(* PopularityRecommender.__init__ (l.8-18).  A table is its column names   *)
(* and its rows; a row lists in na the cells that are missing.             *)
(***************************************************************************)
Raw(t, p) == [title |-> t, popularity |-> p, na |-> {}]

RawNA(t, p, missing) == [title |-> t, popularity |-> p, na |-> missing]

\* a check that is content with one of the two columns
HasColumns_either(table) ==
    "title" \in table.columns \/ "popularity" \in table.columns

HasColumns(table) == "title" \in table.columns /\ "popularity" \in table.columns

\* l.17: the two columns the frame is cut to before dropna
Required == {"title", "popularity"}

\* a cleaning that keeps the rows without a positive popularity
Clean_dropna(rows) == SelectSeq(rows, LAMBDA r : r.na \cap Required = {})

\* l.17: [['title','popularity']].dropna() drops a row when its title or its
\* popularity is missing, whatever its other cells; l.18: popularity > 0,
\* reset_index
Clean(rows) ==
    SelectSeq(rows, LAMBDA r : r.na \cap Required = {} /\ r.popularity > 0)

Catalog(rows) == [i \in DOMAIN Clean(rows) |->
                     Row(Clean(rows)[i].title, Clean(rows)[i].popularity)]

\* no catalog: __init__ raised at l.14 and left no recommender
NoCatalog == <<>>

\* a table of the two columns that holds the rows of a catalog
TableOf(mv) ==
    [columns |-> {"title", "popularity"},
     rows |-> [i \in DOMAIN mv |-> Raw(mv[i].title, mv[i].popularity)]]

\* l.58-69: the keys the script sets when they are missing
SessionKeys == {"locked_range", "selected_movies", "recommendations",
                "sample_movies", "selected_recommended", "user_preferences"}

(***************************************************************************)
(* PopularityRecommender.recommend_by_popularity (l.20-31).  The result is *)
(* the set of catalog row numbers of the candidates and the bound used.    *)
(***************************************************************************)
\* a bound that leaves its lower end out
InRange_open(v, range) == 10 * v > range[1] /\ 10 * v <= range[2]

InRange(v, range) == 10 * v >= range[1] /\ 10 * v <= range[2]

FreshRange(popularity) == <<popularity * LowerTenths, popularity * UpperTenths>>

\* a lock that is never honoured
RangeUsed_fresh(popularity, locked) == FreshRange(popularity)

RangeUsed(popularity, locked) ==
    IF locked = None THEN FreshRange(popularity) ELSE locked

Candidates(mv, range) == {i \in DOMAIN mv : InRange(mv[i].popularity, range)}

recommend_by_popularity(mv, popularity, locked) ==
    [candidates |-> Candidates(mv, RangeUsed(popularity, locked)),
     range |-> RangeUsed(popularity, locked)]

\* a recommender that takes the rows it returns out of its catalog
CatalogAfter_unseen(mv, popularity, locked) ==
    SelectSeq(mv, LAMBDA r : ~InRange(r.popularity, RangeUsed(popularity, locked)))

\* self.movies after a call: l.28-30 index self.movies, which builds a new
\* frame, and l.31 returns columns of it; nothing is assigned to self.movies
CatalogAfter(mv, popularity, locked) == mv

(***************************************************************************)
(* The direct-call specification: any catalog of at most MaxRows rows, and *)
(* recommend_by_popularity called on it with any query and any lock.       *)
(***************************************************************************)
CallTitles == {"A", "B"}

CallPopularities == {7, 10, 13, 14}

Queries == {0 - 5, 0, 10, 20}

CallRanges == {None, <<70, 130>>, <<100, 100>>, <<130, 70>>, <<0, 0>>, <<65, 135>>}

CallRows == {Row(t, p) : t \in CallTitles, p \in CallPopularities}

CallCatalogs == UNION {[1..n -> CallRows] : n \in 0..MaxRows}

NoRet == [candidates |-> {}, range |-> None]

NoEarlier == [rows |-> {}, range |-> None]

\* a call: its arguments, the rows it returned, whether the call before it
\* had the same arguments, and if so what that call returned
NoCall == [popularity |-> 0, locked_range |-> None, made |-> FALSE,
           rows |-> {}, repeat |-> FALSE, earlier |-> NoEarlier]

SameCall(q, locked) ==
    call.made /\ call.popularity = q /\ call.locked_range = locked

InitCall ==
    /\ movies \in CallCatalogs
    /\ movies_file = TableOf(movies)
    /\ state_keys = {}
    /\ locked_range = None
    /\ selected_movies = {}
    /\ recommendations = {}
    /\ sample_movies = {}
    /\ selected_recommended = {}
    /\ err = "none"
    /\ op = "start"
    /\ warned = {}
    /\ all_recs = {}
    /\ lookups = {}
    /\ mode_stat = None
    /\ call = NoCall
    /\ ret = NoRet

Call ==
    \E q \in Queries, locked \in CallRanges :
        /\ call' = [popularity |-> q, locked_range |-> locked, made |-> TRUE,
                    rows |-> {movies[i] : i \in
                                recommend_by_popularity(movies, q, locked).candidates},
                    repeat |-> SameCall(q, locked),
                    earlier |-> IF SameCall(q, locked)
                                THEN [rows |-> call.rows, range |-> ret.range]
                                ELSE NoEarlier]
        /\ ret' = recommend_by_popularity(movies, q, locked)
        /\ movies' = CatalogAfter(movies, q, locked)
        /\ UNCHANGED <<movies_file, state_keys, session, err, op, warned,
                       all_recs, lookups, mode_stat>>

NextCall == Call

SpecCall == InitCall /\ [][NextCall]_vars

(***************************************************************************)
(* The script (l.55-196).  Helpers first.                                  *)
(***************************************************************************)
Titles(rows) == {r.title : r \in rows}

\* every way of leaving k elements of S out
RECURSIVE Without(_, _)
Without(S, k) ==
    IF k = 0 THEN {S} ELSE UNION {Without(S \ {x}, k - 1) : x \in S}

\* DataFrame.sample(n), up to order: raises ValueError when n > len (l.122)
SampleOf(S, n) == Without(S, Cardinality(S) - n)

\* l.65, l.107: recommender.movies.sample(min(20, len(recommender.movies)))
SampleMovies(mv) == SampleOf(DOMAIN mv, Min(SampleSize, Len(mv)))

\* l.87-90, l.143-146: list(set(old).union(set(new))), cut to its first five
\* when longer; the order of list(set(...)) is arbitrary
Overflow(old, new) == Cardinality(old \cup new) > MaxSelected

\* a merge that keeps the boxes ticked now and forgets the earlier selection
Persisted_ticked(old, new) == {new}

\* a merge that forgets the cut to five
Persisted_uncut(old, new) == {old \cup new}

Persisted(old, new) ==
    IF Overflow(old, new) THEN SampleOf(old \cup new, MaxSelected)
    ELSE {old \cup new}

\* st.checkbox(key=f"movie_{title}") twice under one key in one run (l.81)
DuplicateMovieKey(mv, sample) ==
    \E i, j \in sample : i # j /\ mv[i].title = mv[j].title

\* st.checkbox(key=f"rec_{title}") twice under one key in one run (l.137)
DuplicateRecKey(recs) ==
    \E r, s \in recs : r # s /\ r.title = s.title

\* l.115: recommender.movies[recommender.movies['title'] == title].iloc[0]
FirstRow(mv, title) ==
    CHOOSE i \in DOMAIN mv :
        /\ mv[i].title = title
        /\ \A j \in 1..(i - 1) : mv[j].title # title

RECURSIVE SeqOf(_)
SeqOf(S) ==
    IF S = {} THEN <<>>
    ELSE LET x == CHOOSE y \in S : TRUE IN <<x>> \o SeqOf(S \ {x})

\* a pass that keeps its own title
ExcludeTitle_none(mv, candidates, title) == candidates

\* a pass that leaves out the one row it looked up
ExcludeTitle_first(mv, candidates, title) == candidates \ {FirstRow(mv, title)}

\* l.118: recs[recs['title'] != title]
ExcludeTitle(mv, candidates, title) == {i \in candidates : mv[i].title # title}

(***************************************************************************)
(* l.112-119: the batch loop over the titles in order.  st holds the       *)
(* session's locked_range, the rows concatenated so far (each tagged with  *)
(* the title of the pass it came from, so that len(all_recs) is the size   *)
(* of the set) and the calls made.                                         *)
(***************************************************************************)
QueryOf(mv, title) == mv[FirstRow(mv, title)].popularity

\* l.115-119: one pass
Pass(mv, title, st, isFirst) ==
    LET r == recommend_by_popularity(mv, QueryOf(mv, title), st.locked_range)
    IN [locked_range |-> r.range,
        all_recs |-> st.all_recs \cup
            {<<title, i>> : i \in ExcludeTitle(mv, r.candidates, title)},
        lookups |-> st.lookups \cup
            {[title |-> title, popularity |-> QueryOf(mv, title),
              range |-> r.range, first |-> isFirst]}]

\* a batch that starts under the lock the session holds
BatchStart_kept == [locked_range |-> locked_range, all_recs |-> {}, lookups |-> {}]

\* l.112-113
BatchStart == [locked_range |-> None, all_recs |-> {}, lookups |-> {}]

RECURSIVE BatchLoop(_, _, _)
BatchLoop(mv, titles, k) ==
    IF k = 0 THEN BatchStart
    ELSE Pass(mv, titles[k], BatchLoop(mv, titles, k - 1), k = 1)

Batch(mv, titles) == BatchLoop(mv, titles, Len(titles))

\* l.122: all_recs.drop_duplicates() compares whole rows: title and popularity
DropDuplicates(mv, ar) == {mv[p[2]] : p \in ar}

\* l.122: the size asked of sample() is taken before duplicates are dropped
AskedSize(ar) == Min(DisplaySize, Cardinality(ar))

\* a refresh that draws all rows but one
Shuffle_short(recs) == SampleOf(recs, Cardinality(recs) - 1)

\* l.167: recommendations.sample(frac=1).reset_index(drop=True): a sample,
\* without replacement, of as many rows as the frame holds; the frames it
\* may give, up to order
Shuffle(recs) == SampleOf(recs, Cardinality(recs))

\* l.154-156
Chosen(recs, liked) == {r \in recs : r.title \in liked}

\* l.173: statistics.mode returns the first of the most frequent values
Count(chosen, v) == Cardinality({r \in chosen : r.popularity = v})

Modes(chosen) ==
    {r.popularity : r \in {x \in chosen :
        \A y \in chosen : Count(chosen, y.popularity) <= Count(chosen, x.popularity)}}

(***************************************************************************)
(* The tables a session may load (dataset/RevenueMovies.csv, l.55), and    *)
(* the boxes the modelled user ticks.                                      *)
(***************************************************************************)
Columns == {"title", "popularity", "revenue"}

\* three titles of one popularity, one of them without a revenue, among
\* rows that cleaning drops
ThreeTable ==
    [columns |-> Columns,
     rows |-> <<Raw("A", 100), RawNA("", 50, {"title"}), Raw("B", 100),
                Raw("Z", 0), RawNA("Y", 0, {"popularity"}),
                RawNA("C", 100, {"revenue"}),
                Raw("X", 0 - 3)>>]

\* A has six neighbours, C has none; P and Q share a popularity
HubTable ==
    [columns |-> Columns,
     rows |-> <<Raw("A", 100), Raw("C", 1000), Raw("P", 100),
                Raw("Q", 100), Raw("R", 110), Raw("S", 120), Raw("T", 130),
                Raw("U", 70)>>]

\* six titles, none within the band of another
IsoTable ==
    [columns |-> Columns,
     rows |-> <<Raw("A", 10), Raw("B", 20), Raw("C", 40), Raw("D", 80),
                Raw("E", 160), Raw("F", 320)>>]

\* A has eleven neighbours: more than the display holds
WideTable ==
    [columns |-> Columns,
     rows |-> <<Raw("A", 100), Raw("N01", 95), Raw("N02", 96), Raw("N03", 97),
                Raw("N04", 98), Raw("N05", 99), Raw("N06", 101), Raw("N07", 102),
                Raw("N08", 103), Raw("N09", 104), Raw("N10", 105), Raw("P", 106)>>]

\* twenty-one rows, more than the list shows, and one title on two rows
BigTable ==
    [columns |-> Columns,
     rows |-> <<Raw("B", 105), Raw("A", 100), Raw("A", 110),
                Raw("F01", 501), Raw("F02", 502), Raw("F03", 503),
                Raw("F04", 504), Raw("F05", 505), Raw("F06", 506),
                Raw("F07", 507), Raw("F08", 508), Raw("F09", 509),
                Raw("F10", 510), Raw("F11", 511), Raw("F12", 512),
                Raw("F13", 513), Raw("F14", 514), Raw("F15", 515),
                Raw("F16", 516), Raw("F17", 517), Raw("F18", 518)>>]

\* twenty-one rows of twenty-one titles; C and D lie within the band of
\* each other only
LongTable ==
    [columns |-> Columns,
     rows |-> <<Raw("C", 300), Raw("D", 310),
                Raw("G01", 501), Raw("G02", 502), Raw("G03", 503),
                Raw("G04", 504), Raw("G05", 505), Raw("G06", 506),
                Raw("G07", 507), Raw("G08", 508), Raw("G09", 509),
                Raw("G10", 510), Raw("G11", 511), Raw("G12", 512),
                Raw("G13", 513), Raw("G14", 514), Raw("G15", 515),
                Raw("G16", 516), Raw("G17", 517), Raw("G18", 518),
                Raw("G19", 519)>>]

\* a table whose titles stand under another name
NoTitleTable ==
    [columns |-> {"name", "popularity"},
     rows |-> <<Raw("A", 100), Raw("B", 110)>>]

\* a table of the revenue variant: no popularity column
NoPopularityTable ==
    [columns |-> {"title", "revenue"},
     rows |-> <<Raw("A", 100), Raw("B", 110)>>]

Tables == {ThreeTable, HubTable, IsoTable, WideTable, BigTable, LongTable,
           NoTitleTable, NoPopularityTable}

\* titles whose "Select" box the user ticks, and whose "Choose" box
WatchPicks == {"A", "B", "C", "D", "E", "F"}

LikePicks == {"P", "Q", "R", "S", "T", "U"}

Ticks(boxes) == {X \in SUBSET boxes : Cardinality(X) <= MaxChecked}

(***************************************************************************)
(* One run of the script.  Leave is the end of a run: by reaching the last *)
(* line (e = "none") or by an exception, which keeps what the run had      *)
(* stored in the session state before it.                                  *)
(***************************************************************************)
Leave(kind, e, sm, smp, lr, recs, sr, w, ar, lk, ms) ==
    /\ op' = kind
    /\ err' = e
    /\ selected_movies' = sm
    /\ sample_movies' = smp
    /\ locked_range' = lr
    /\ recommendations' = recs
    /\ selected_recommended' = sr
    /\ warned' = w
    /\ all_recs' = ar
    /\ lookups' = lk
    /\ mode_stat' = ms
    /\ UNCHANGED <<movies_file, movies, state_keys, call, ret>>

\* l.170-182: the statistics of the chosen rows
Stats(kind, sm, smp, lr, recs, sr, w, ar, lk) ==
    IF sr = {}
    THEN Leave(kind, "none", sm, smp, lr, recs, sr, w, ar, lk, None)
    ELSE IF Chosen(recs, sr) = {}
    \* mode([]) raises StatisticsError, caught (l.174); mean([]) raises it too
    THEN Leave(kind, "StatisticsError", sm, smp, lr, recs, sr, w, ar, lk, None)
    ELSE \E m \in Modes(Chosen(recs, sr)) :
             Leave(kind, "none", sm, smp, lr, recs, sr, w, ar, lk, <<m>>)

\* l.128-167: the recommendations, their boxes, the merge of the chosen ones
Display(kind, sm, smp, lr, recs, w, ar, lk) ==
    IF recs = {}
    THEN Leave(kind, "none", sm, smp, lr, recs, selected_recommended, w, ar, lk, None)
    ELSE IF DuplicateRecKey(recs)
    THEN Leave(kind, "DuplicateWidgetID rec", sm, smp, lr, recs,
               selected_recommended, w, ar, lk, None)
    ELSE \E selected_recs \in
                Ticks(Titles(recs) \cap Titles(recommendations) \cap LikePicks) :
         \E persisted_recs \in Persisted(selected_recommended, selected_recs) :
         \E shown \in (IF kind = "refresh_recs" THEN Shuffle(recs) ELSE {recs}) :
             Stats(kind, sm, smp, lr, shown, persisted_recs,
                   IF Overflow(selected_recommended, selected_recs)
                   THEN w \cup {"recs"} ELSE w,
                   ar, lk)

\* l.114: the orders in which the loop may meet the titles.  list(set(...))
\* of l.87 puts any title first; the passes after the first all run under the
\* lock the first one left, so one order of the others stands for all.
Orders(sm) ==
    IF sm = {} THEN {<<>>}
    ELSE {<<first>> \o SeqOf(sm \ {first}) : first \in sm}

\* l.124: pd.DataFrame()
EmptyFrame == {}

\* l.111-124: Show Recommendations
ShowRecs(kind, sm, smp, w) ==
    \E titles \in Orders(sm) :
    \E b \in {Batch(movies, titles)} :
    \E unique \in {DropDuplicates(movies, b.all_recs)} :
        IF b.all_recs = {}
        THEN Display(kind, sm, smp, b.locked_range, EmptyFrame, w,
                     b.all_recs, b.lookups)
        ELSE IF AskedSize(b.all_recs) > Cardinality(unique)
        THEN Leave(kind, "ValueError", sm, smp, b.locked_range, recommendations,
                   selected_recommended, w, b.all_recs, b.lookups, None)
        ELSE \E recs \in SampleOf(unique, AskedSize(b.all_recs)) :
                 Display(kind, sm, smp, b.locked_range, recs, w,
                         b.all_recs, b.lookups)

Script(kind) ==
    \* l.55: the recommender is constructed anew in every run
    IF ~HasColumns(movies_file)
    THEN Leave(kind, "ValueError columns", selected_movies, sample_movies,
               locked_range, recommendations, selected_recommended, {}, {}, {}, None)
    ELSE IF DuplicateMovieKey(movies, sample_movies)
    THEN Leave(kind, "DuplicateWidgetID movie", selected_movies, sample_movies,
               locked_range, recommendations, selected_recommended, {}, {}, {}, None)
    ELSE \E selected_titles \in
                Ticks(Titles({movies[i] : i \in sample_movies}) \cap WatchPicks) :
         \E persisted_movies \in Persisted(selected_movies, selected_titles) :
         \E smp \in (IF kind = "refresh_list" THEN SampleMovies(movies)
                     ELSE {sample_movies}) :
             LET w == IF Overflow(selected_movies, selected_titles)
                      THEN {"movies"} ELSE {}
             IN IF kind = "show"
                THEN ShowRecs(kind, persisted_movies, smp, w)
                ELSE Display(kind, persisted_movies, smp, locked_range,
                             recommendations, w, {}, {})

\* the two buttons of l.101-103 exist once a run has reached them
ButtonsRendered == err \notin {"ValueError columns", "DuplicateWidgetID movie"}

\* the button of l.166 exists once a run has reached it
RefreshRendered == err \in {"none", "StatisticsError"} /\ recommendations # {}

\* a box is ticked or cleared
Rerun == Script("rerun")

ShowRecommendations == ButtonsRendered /\ Script("show")

RefreshMovieList == ButtonsRendered /\ Script("refresh_list")

RefreshRecommendations == RefreshRendered /\ Script("refresh_recs")

\* l.55-69 and the first run of the script, in which no box is ticked
Init ==
    /\ movies_file \in Tables
    /\ IF HasColumns(movies_file)
       THEN /\ movies = Catalog(movies_file.rows)
            /\ state_keys = SessionKeys
            /\ sample_movies \in SampleMovies(movies)
            /\ err = IF DuplicateMovieKey(movies, sample_movies)
                     THEN "DuplicateWidgetID movie" ELSE "none"
       \* l.14 raises: the script stops at l.55, before l.58
       ELSE /\ movies = NoCatalog
            /\ state_keys = {}
            /\ sample_movies = {}
            /\ err = "ValueError columns"
    /\ locked_range = None
    /\ selected_movies = {}
    /\ recommendations = {}
    /\ selected_recommended = {}
    /\ op = "start"
    /\ warned = {}
    /\ all_recs = {}
    /\ lookups = {}
    /\ mode_stat = None
    /\ call = NoCall
    /\ ret = NoRet

Next ==
    \/ Rerun
    \/ ShowRecommendations
    \/ RefreshMovieList
    \/ RefreshRecommendations

Spec == Init /\ [][Next]_vars

(***************************************************************************)
(* Properties of recommend_by_popularity, under SpecCall.                  *)
(***************************************************************************)

\* C1: called with a query q > 0 and no lock, recommend_by_popularity returns
\* exactly the catalog rows whose popularity v has 0.7*q <= v <= 1.3*q, both
\* ends included, and returns the bound (0.7*q, 1.3*q).
C1_FreshBandExact ==
    (call.made /\ call.locked_range = None /\ call.popularity > 0) =>
        /\ ret.candidates =
              {i \in DOMAIN movies :
                  /\ 7 * call.popularity <= 10 * movies[i].popularity
                  /\ 10 * movies[i].popularity <= 13 * call.popularity}
        /\ ret.range = <<7 * call.popularity, 13 * call.popularity>>

\* a call for q = 10 without a lock on a catalog that holds a row at each end
\* of the band (7 and 13) and a row outside it (14)
C1_Witness ==
    /\ call.made /\ call.locked_range = None /\ call.popularity = 10
    /\ \E i, j \in ret.candidates :
          movies[i].popularity = 7 /\ movies[j].popularity = 13
    /\ \E k \in DOMAIN movies : movies[k].popularity = 14 /\ k \notin ret.candidates

\* C2: called with a bound pair (lower, upper) as the lock, whatever the
\* query, recommend_by_popularity returns exactly the catalog rows with
\* lower <= popularity <= upper and returns the pair unchanged.
C2_LockedBandExact ==
    (call.made /\ call.locked_range # None) =>
        /\ ret.candidates =
              {i \in DOMAIN movies :
                  /\ call.locked_range[1] <= 10 * movies[i].popularity
                  /\ 10 * movies[i].popularity <= call.locked_range[2]}
        /\ ret.range = call.locked_range

\* a call for q = 20 under the lock (7.0, 13.0): the row at 7 is returned and
\* the row at 14, which the band of 20 would hold, is not
C2_Witness ==
    /\ call.made /\ call.locked_range = <<70, 130>> /\ call.popularity = 20
    /\ \E i \in ret.candidates : movies[i].popularity = 7
    /\ \E k \in DOMAIN movies : movies[k].popularity = 14 /\ k \notin ret.candidates

(***************************************************************************)
(* Properties of the script, under Spec.                                   *)
(***************************************************************************)

\* the last run was a Show Recommendations run that reached the batch (l.111)
BatchRan == op = "show" /\ err # "DuplicateWidgetID movie"

\* what drop_duplicates leaves of the last batch's all_recs
Union == DropDuplicates(movies, all_recs)

\* C3: in a Show Recommendations batch every lookup uses the bound derived
\* from the first processed title alone (0.7 and 1.3 times its popularity),
\* whatever bound an earlier batch left, and locked_range holds that bound
\* after the batch.
C3_BatchUsesFirstBound ==
    (BatchRan /\ lookups # {}) =>
        \E l \in lookups :
            /\ l.first
            /\ \A m \in lookups :
                  m.range = <<7 * l.popularity, 13 * l.popularity>>
            /\ locked_range = <<7 * l.popularity, 13 * l.popularity>>

\* a batch of three lookups of three popularities, after an earlier batch
\* whose recommendations, still stored, lie outside the bound of this one
C3_Witness ==
    /\ BatchRan
    /\ Cardinality({l.popularity : l \in lookups}) >= 3
    /\ \E r \in recommendations : ~InRange(r.popularity, locked_range)

\* C4: on tables that have both columns and whose titles are all different,
\* every rerun completes without raising an error.
C4_NoRuntimeError ==
    (/\ HasColumns(movies_file)
     /\ \A i, j \in DOMAIN movies : movies[i].title = movies[j].title => i = j)
        => err = "none"

\* C5: after a batch whose deduplicated union U is not empty, the stored
\* recommendation set is a subset of U of size min(10, |U|).
C5_StoredSampleSize ==
    (BatchRan /\ Union # {}) =>
        /\ recommendations \subseteq Union
        /\ Cardinality(recommendations) = Min(10, Cardinality(Union))

\* C6: after every run selected_movies and selected_recommended each hold
\* at most five titles.
C6_AtMostFive ==
    /\ Cardinality(selected_movies) <= 5
    /\ Cardinality(selected_recommended) <= 5

\* a run that found a sixth title picked, warned, cut the selection to five
\* and ended without an error
C6_Witness ==
    /\ "movies" \in warned
    /\ Cardinality(selected_movies) = 5
    /\ err = "none"

\* the same for the chosen recommendations
C6_WitnessChosen ==
    /\ "recs" \in warned
    /\ Cardinality(selected_recommended) = 5
    /\ err = "none"

\* C7: at the end of every run every title in selected_recommended is the
\* title of a row of the current recommendations.
C7_ChosenAreShown == selected_recommended \subseteq Titles(recommendations)

\* C8: the stored recommendations never hold two rows of one title.
C8_OneRowPerTitle ==
    \A r, s \in recommendations : r.title = s.title => r = s

\* the popularities of the chosen rows have one most frequent value
UniqueMode(chosen) == Cardinality(Modes(chosen)) = 1

\* C9: when the statistics are rendered, Mode is the most frequent popularity
\* of the chosen rows if there is a single one, and the sentinel 0 if not.
C9_ModeOrSentinel ==
    (mode_stat # None) =>
        LET chosen == Chosen(recommendations, selected_recommended)
        IN IF UniqueMode(chosen) THEN mode_stat[1] \in Modes(chosen)
           ELSE mode_stat = <<0>>

\* every lookup of the last batch found, within its bound, rows of its own
\* title only
NoMatches ==
    \A l \in lookups : \A i \in DOMAIN movies :
        InRange(movies[i].popularity, l.range) => movies[i].title = l.title

\* C10: a batch in which no lookup has a match after self-exclusion (or in
\* which no title is selected) raises no error and stores the empty
\* recommendation set.
C10_EmptyBatchStoresEmpty ==
    (BatchRan /\ NoMatches) => (recommendations = {} /\ err = "none")

\* a batch for a selected title whose lookup found its own row and no other
C10_Witness ==
    /\ BatchRan /\ NoMatches
    /\ selected_movies # {} /\ lookups # {}

\* C11: when the table lacks the title column or the popularity column, the
\* construction raises before a catalog exists: no key of the session state
\* is ever set, the buttons are never drawn and no batch ever runs.
C11_MissingColumnFailsFast ==
    ("title" \notin movies_file.columns \/ "popularity" \notin movies_file.columns) =>
        /\ err = "ValueError columns"
        /\ movies = NoCatalog
        /\ state_keys = {}
        /\ sample_movies = {} /\ selected_movies = {} /\ recommendations = {}
        /\ locked_range = None /\ selected_recommended = {}
        /\ ~ButtonsRendered
        /\ op \in {"start", "rerun"} /\ lookups = {}

\* a rerun of a session whose table has no title column
C11_Witness ==
    /\ "title" \notin movies_file.columns
    /\ op = "rerun"

\* the same for a table without the popularity column
C11_WitnessPopularity ==
    /\ "popularity" \notin movies_file.columns
    /\ op = "rerun"

\* the rows of the table that have a title and a popularity, the latter
\* above 0; a cell missing in another column does not count
Kept == {j \in DOMAIN movies_file.rows :
            /\ "title" \notin movies_file.rows[j].na
            /\ "popularity" \notin movies_file.rows[j].na
            /\ movies_file.rows[j].popularity > 0}

\* every catalog row is such a row of the table, and every such row is there
CatalogIsClean ==
    HasColumns(movies_file) =>
        /\ Len(movies) = Cardinality(Kept)
        /\ \A i \in DOMAIN movies :
              /\ movies[i].popularity > 0
              /\ \E j \in Kept :
                    /\ movies_file.rows[j].title = movies[i].title
                    /\ movies_file.rows[j].popularity = movies[i].popularity
        /\ \A j \in Kept : \E i \in DOMAIN movies :
              /\ movies[i].title = movies_file.rows[j].title
              /\ movies[i].popularity = movies_file.rows[j].popularity

\* C12: the catalog holds exactly the rows of the table that have a title,
\* a popularity and a popularity above 0, and no run of the script (ticking,
\* batch, refresh) changes it.
C12_CatalogCleanAndFixed ==
    /\ []CatalogIsClean
    /\ [][movies' = movies]_vars

\* a table that cleaning shortened, after a batch and a refresh of its result
C12_Witness ==
    /\ HasColumns(movies_file)
    /\ Len(movies) < Len(movies_file.rows)
    /\ \E j \in Kept : movies_file.rows[j].na # {}
    /\ op = "refresh_recs"
    /\ selected_movies # {} /\ recommendations # {}

\* C13: in a batch, the rows a title's own lookup adds to all_recs never
\* include a row of that title.
C13_OwnTitleExcluded ==
    BatchRan => \A p \in all_recs : movies[p[2]].title # p[1]

\* a batch of two titles in which each lookup found the other's row, and
\* its own row within the bound
C13_Witness ==
    /\ BatchRan
    /\ \E l, m \in lookups :
          /\ l.title # m.title
          /\ <<l.title, FirstRow(movies, m.title)>> \in all_recs
          /\ <<m.title, FirstRow(movies, l.title)>> \in all_recs
          /\ InRange(l.popularity, l.range) /\ InRange(m.popularity, m.range)

C14_WitnessLocked ==
    /\ call.repeat /\ call.locked_range # None
    /\ call.rows # {}

\* the last run was started by Refresh Movie List
RefreshedList == op = "refresh_list"

\* what a refresh run does besides the refresh: the script runs as a whole,
\* so the merges of l.87-92 and l.143-148 run too.  A selection is merged
\* only: it keeps its titles and gains none but titles whose boxes the run
\* showed, or the run warns and cuts it to five titles of those.
LeavesLock == locked_range' = locked_range

ShownMovies == Titles({movies[i] : i \in sample_movies})

ShownRecs == Titles(recommendations)

OnlyMerged(old, new, shown, cut) ==
    \/ old \subseteq new /\ (new \ old) \subseteq shown
    \/ /\ cut
       /\ Cardinality(new) = MaxSelected
       /\ Cardinality(old \cup new) > MaxSelected
       /\ new \subseteq (old \cup shown)

SelectionsOnlyMerged ==
    /\ OnlyMerged(selected_movies, selected_movies', ShownMovies,
                  "movies" \in warned')
    /\ OnlyMerged(selected_recommended, selected_recommended', ShownRecs,
                  "recs" \in warned')

SelectionsUnchanged ==
    /\ selected_movies' = selected_movies
    /\ selected_recommended' = selected_recommended

\* C15, as stated: a Refresh Movie List run leaves recommendations,
\* locked_range and the two selections as they were, and no run loses a
\* title of selected_movies.
C15_RefreshLosesNothing ==
    [][/\ RefreshedList' =>
            /\ recommendations' = recommendations
            /\ LeavesLock /\ SelectionsUnchanged
       /\ selected_movies \subseteq selected_movies']_vars

\* C15, amended: a Refresh Movie List run draws a new sample of the catalog
\* and leaves recommendations and locked_range as they were, and the two
\* selections but for the merge of the titles ticked in that run; a title
\* stays in selected_movies in every run, shown in the sample or not,
\* unless that run cuts a selection of more than five to five.
C15_RefreshKeepsUnlessCut ==
    [][/\ RefreshedList' =>
            /\ recommendations' = recommendations
            /\ LeavesLock /\ SelectionsOnlyMerged
            /\ err' # "DuplicateWidgetID movie" =>
                    sample_movies' \in SampleMovies(movies)
       /\ \/ selected_movies \subseteq selected_movies'
          \/ /\ "movies" \in warned'
             /\ Cardinality(selected_movies') = MaxSelected]_vars

\* after a refresh that ended without an error, a selected title is not in
\* the new sample while recommendations and a lock are held
C15_Witness ==
    /\ RefreshedList /\ err = "none"
    /\ \E t \in selected_movies :
          t \notin Titles({movies[i] : i \in sample_movies})
    /\ recommendations # {} /\ locked_range # None

\* a later run that still holds such a title
C15_WitnessLater ==
    /\ op = "rerun" /\ err = "none"
    /\ \E t \in selected_movies :
          t \notin Titles({movies[i] : i \in sample_movies})

\* C16, as stated: a Refresh Recommendations run stores the rows that were
\* stored, in some order, and leaves locked_range, selected_movies and
\* selected_recommended as they were.
C16_RefreshRecsLeavesAll ==
    [][op' = "refresh_recs" =>
           /\ recommendations' = recommendations
           /\ LeavesLock /\ SelectionsUnchanged]_vars

\* C16, amended: a Refresh Recommendations run stores the rows that were
\* stored, in some order, and leaves locked_range as it was, and the two
\* selections but for the merge of the titles ticked in that run: each
\* keeps its titles and gains ticked ones, or is cut to five with a warning.
C16_RefreshRecsReorders ==
    [][op' = "refresh_recs" =>
           /\ recommendations' = recommendations
           /\ LeavesLock /\ SelectionsOnlyMerged]_vars

\* after a refresh of several recommendations, one of them chosen
C16_Witness ==
    /\ op = "refresh_recs" /\ err = "none"
    /\ Cardinality(recommendations) >= 2
    /\ selected_movies # {} /\ selected_recommended # {}
    /\ locked_range # None

\* C17: whenever recommendations are stored, locked_range is a bound and the
\* popularity of every stored row lies within it, both ends included.
C17_RecsWithinLock ==
    recommendations # {} =>
        /\ locked_range # None
        /\ \A r \in recommendations :
              /\ locked_range[1] <= 10 * r.popularity
              /\ 10 * r.popularity <= locked_range[2]

\* the titles the last batch looked up
ReferenceTitles == {l.title : l \in lookups}

\* C18: after a batch that ended without an error, no title the batch
\* looked up is the title of a stored recommendation.
C18_NoReferenceRecommended ==
    (BatchRan /\ err = "none") =>
        Titles(recommendations) \cap ReferenceTitles = {}

\* C19: a run that loses a title of selected_movies is a run that cut the
\* selection to five: the earlier selection and the boxes ticked came to
\* more than five titles.  In every other run each selected title stays,
\* its box ticked or not.
C19_LeavesOnlyByCut ==
    [][\/ selected_movies \subseteq selected_movies'
       \/ /\ "movies" \in warned'
          /\ Cardinality(selected_movies') = 5
          /\ Cardinality(selected_movies \cup selected_movies') > 5]_vars

\* a run that ended without a cut and holds more selected titles than it
\* found boxes ticked
C19_Witness ==
    /\ op = "rerun" /\ err = "none" /\ warned = {}
    /\ Cardinality(selected_movies) > MaxChecked
    /\ Cardinality(selected_movies) <= 5

====
